---- MODULE Spec2Model ----
(* A model of tags/plugin.py: the TagsPlugin hook sequence                  *)
(* (__init__, on_config, on_files, generate_files, __get_aggregated_data)   *)
(* and the helper get_metadata with its inner extract_yaml.                 *)
EXTENDS Integers, Sequences, FiniteSets, TLC

------------------------------------------------------------------------------
(* Bounds of the model.                                                      *)

\* the number of source files the host hands to on_files
MaxFiles == 2

\* the number of times the host calls on_files (builds and rebuilds)
MaxPasses == 2

------------------------------------------------------------------------------
(* Python values.                                                            *)

\* Python's None where a mapping is expected (get_metadata's implicit return)
None == [py_none |-> TRUE]

\* Python's None where a string or path is expected
NoneStr == "None"

\* a YAML sequence value, and the YAML null value, of the key "tags"
YamlList(items) == [null |-> FALSE, items |-> items]

YamlNull == [null |-> TRUE, items |-> <<>>]

\* bool(e) is False for None and for an empty mapping
Falsy(e) == e = None \/ DOMAIN e = {}

\* dict.get(key, default)
DictGet(e, key, default) == IF key \in DOMAIN e THEN e[key] ELSE default

\* a dict kept as its items in insertion order: <<key, value>> pairs
ItemKeys(items) == [k \in 1..Len(items) |-> items[k][1]]

HasKey(items, key) == \E k \in 1..Len(items) : items[k][1] = key

\* defaultdict(list): tag_dict[tag].append(e)
DictAppend(items, key, e) ==
    IF HasKey(items, key)
    THEN [k \in 1..Len(items) |->
            IF items[k][1] = key THEN <<key, Append(items[k][2], e)>> ELSE items[k]]
    ELSE Append(items, <<key, <<e>>>>)

\* d[key] = value
DictSet(items, key, value) ==
    IF HasKey(items, key)
    THEN [k \in 1..Len(items) |-> IF items[k][1] = key THEN <<key, value>> ELSE items[k]]
    ELSE Append(items, <<key, value>>)

\* a sort that is not stable: an element goes before the elements of equal key
SortInsertUnstable(sorted, i, keys) ==
    LET n == Cardinality({k \in 1..Len(sorted) : keys[sorted[k]] < keys[i]})
    IN  SubSeq(sorted, 1, n) \o <<i>> \o SubSeq(sorted, n + 1, Len(sorted))

\* sorted(seq, key=...): Python's sort is stable. keys[i] is the key of the
\* i-th element; the result is the sequence of positions in sorted order.
SortInsert(sorted, i, keys) ==
    LET n == Cardinality({k \in 1..Len(sorted) : keys[sorted[k]] <= keys[i]})
    IN  SubSeq(sorted, 1, n) \o <<i>> \o SubSeq(sorted, n + 1, Len(sorted))

RECURSIVE SortedPositions(_, _)
SortedPositions(keys, n) ==
    IF n = 0 THEN <<>> ELSE SortInsert(SortedPositions(keys, n - 1), n, keys)

------------------------------------------------------------------------------
(* Strings: the tag names, the lines of a document, the paths.               *)

TagNames == {"x", "X", "y"}

\* str.lower() on the tag names
Lower(s) == IF s = "X" THEN "x" ELSE s

\* the code point that decides the comparison of two one-character strings
Ord(s) == CASE s = "X" -> 88 [] s = "x" -> 120 [] s = "y" -> 121

\* str.strip() on a line of a document (a line is kept without its terminator)
Strip(line) == IF line = " --- " THEN "---" ELSE line

\* what the YAML parser makes of one line of a block
YamlLine(line) ==
    CASE line \in {"", "# draft"} -> [kind |-> "empty"]
      [] line = "Body text"       -> [kind |-> "scalar"]
      [] line = "tags: [x"        -> [kind |-> "bad"]
      [] line = "title: T"        -> [kind |-> "pair", key |-> "title", value |-> "T"]
      [] line = "tags: [x]"       -> [kind |-> "pair", key |-> "tags", value |-> YamlList(<<"x">>)]
      [] line = "tags: [X]"       -> [kind |-> "pair", key |-> "tags", value |-> YamlList(<<"X">>)]
      [] line = "tags: [x, y]"    -> [kind |-> "pair", key |-> "tags", value |-> YamlList(<<"x", "y">>)]
      [] line = "tags: [y, X]"    -> [kind |-> "pair", key |-> "tags", value |-> YamlList(<<"y", "X">>)]
      [] line = "tags: [x, x]"    -> [kind |-> "pair", key |-> "tags", value |-> YamlList(<<"x", "x">>)]
      [] line = "tags: []"        -> [kind |-> "pair", key |-> "tags", value |-> YamlList(<<>>)]
      [] line = "tags:"           -> [kind |-> "pair", key |-> "tags", value |-> YamlNull]
      [] line = "year: 2019"      -> [kind |-> "pair", key |-> "year", value |-> 2019]
      [] line = "year: 2020"      -> [kind |-> "pair", key |-> "year", value |-> 2020]
      [] line = "year: 6000"      -> [kind |-> "pair", key |-> "year", value |-> 6000]
      [] OTHER                    -> [kind |-> "scalar"]

------------------------------------------------------------------------------
(* get_metadata and its inner extract_yaml.                                  *)

\* extract_yaml: the loop over the lines of f from line k on, with the counter
\* c of marker lines seen and the list result of lines collected so far
RECURSIVE ExtractYamlFrom(_, _, _, _)
ExtractYamlFrom(f, k, c, result) ==
    IF k > Len(f) THEN result
    ELSE IF Strip(f[k]) = "---" THEN ExtractYamlFrom(f, k + 1, c + 1, result)
    ELSE IF c = 2 THEN result
    ELSE IF c = 1 THEN ExtractYamlFrom(f, k + 1, c, Append(result, f[k]))
    ELSE ExtractYamlFrom(f, k + 1, c, result)

extract_yaml(f) == ExtractYamlFrom(f, 1, 0, <<>>)

\* the mapping a block of "key: value" lines loads to: a later key replaces
\* an earlier one
RECURSIVE YamlMapping(_, _)
YamlMapping(block, n) ==
    IF n = 0 THEN <<>>
    ELSE LET rest == YamlMapping(block, n - 1)
             ev   == YamlLine(block[n])
         IN  IF ev.kind = "pair" THEN (ev.key :> ev.value) @@ rest ELSE rest

\* yaml.load(metadata, Loader=yaml.FullLoader) on the collected lines:
\* a mapping, a plain scalar, nothing (None), or a YAMLError
yaml_load(block) ==
    LET kinds == {YamlLine(block[k]).kind : k \in 1..Len(block)}
    IN  IF "bad" \in kinds \/ {"scalar", "pair"} \subseteq kinds
        THEN [is |-> "error"]
        ELSE IF "scalar" \in kinds THEN [is |-> "scalar"]
        ELSE IF "pair" \in kinds
             THEN [is |-> "mapping", value |-> YamlMapping(block, Len(block))]
             ELSE [is |-> "none"]

\* get_metadata(name, path) on the document doc that path/name names:
\* what it raises ("" when it returns) and what it returns
get_metadata(name, doc) ==
    IF ~doc.readable THEN [raised |-> "IOError", value |-> None]
    ELSE LET metadata == extract_yaml(doc.lines)
             meta     == yaml_load(metadata)
         IN  IF metadata = <<>> THEN [raised |-> "", value |-> None]
             ELSE IF meta.is = "error" THEN [raised |-> "YAMLError", value |-> None]
             ELSE IF meta.is \in {"none", "scalar"}
                  THEN [raised |-> "AttributeError", value |-> None]
             ELSE [raised |-> "", value |-> ("filename" :> name) @@ meta.value]

------------------------------------------------------------------------------
(* The source tree and the plugin's options.                                 *)

\* the stem of the i-th source file's name
Stems == <<"a", "b", "c", "d", "e">>

\* str(path).endswith(suffix), for the paths of the source tree
EndsWith(path, suffix) == \E k \in 1..Len(Stems) : path = Stems[k] \o suffix

\* the documents a source file may hold
Texts ==
    { <<"Body text">>,
      <<"---", "---", "Body text">>,
      <<"---", "", "# draft", "---">>,
      <<"# draft", "---", "title: T", "tags: [x]", "year: 2019", "">>,
      <<"---", "tags: [x, y]", "year: 2020", "---", "Body text">>,
      <<"---", "title: T", "tags: [x]", "year: 2019", "---">>,
      <<"---", "tags: [x]", "---">>,
      <<"---", "title: T", "tags: [x, x]", "---", "Body text">>,
      <<" --- ", "tags: [X]", " --- ", "tags: [y, X]">>,
      <<"---", "tags: [x]", "year: 6000", "---">>,
      <<"---", "tags:", "year: 2019", "---">>,
      <<"---", "tags: []", "title: T", "---">>,
      <<"---", "title: T", "---">>,
      <<"---", "tags: [x", "---">> }

Documents ==
    [ext : {".md"}, readable : {TRUE}, lines : Texts]
    \cup {[ext |-> ".md", readable |-> FALSE, lines |-> <<>>],
          [ext |-> ".txt", readable |-> TRUE, lines |-> <<"---", "tags: [y, X]", "---">>]}

docs_dir == "/site/docs"

site_dir == "/site/site"

\* the plugin's section of mkdocs.yml, with the defaults of config_scheme
Configs ==
    { [tags_filename |-> "tags.md",   tags_folder |-> "aux",       tags_template |-> NoneStr],
      [tags_filename |-> "custom.md", tags_folder |-> "aux",       tags_template |-> NoneStr],
      [tags_filename |-> "tag.x.md",  tags_folder |-> "aux",       tags_template |-> NoneStr],
      [tags_filename |-> "",          tags_folder |-> "/srv/tags", tags_template |-> "theme/index.tpl"] }

\* Path.is_absolute()
IsAbsolute(path) == path \in {"/srv/tags", docs_dir, site_dir}

\* Path.parent and Path.name of the template path
PathParent(path) == IF path = "theme/index.tpl" THEN "theme" ELSE "."

PathName(path) == IF path = "theme/index.tpl" THEN "index.tpl" ELSE path

\* Path(a) / b
Join(a, b) == a \o "/" \o b

\* Python's "x or y" on strings
Or(x, y) == IF x \in {"", NoneStr} THEN y ELSE x

------------------------------------------------------------------------------
(* The state.                                                                *)

VARIABLES
    docs,             \* the source tree: the documents under docs_dir, in the host's order
    config,           \* the plugin's options (self.config)
    dirs,             \* the directories that exist
    out,              \* the generated files on disk: path -> text written
    metadata,         \* self.metadata
    tags_filename,    \* self.tags_filename
    tags_folder,      \* self.tags_folder
    tags_template,    \* self.tags_template
    pc,               \* where the host is in the plugin's hook sequence
    files,            \* on_files: the host's file collection
    scan_i,           \* on_files: the position of the scan loop in files
    data,             \* generate_files: the aggregated data (documents as positions in self.metadata)
    d,                \* generate_files: the dict tag -> filename, as its items
    generated_files,  \* on_files: the list generate_files returned
    ret,              \* what on_files returned to the host
    error,            \* the exception that ended the pass
    passes,           \* the number of calls of on_files so far
    history           \* what each completed pass generated

vars == <<docs, config, dirs, out, metadata, tags_filename, tags_folder, tags_template,
          pc, files, scan_i, data, d, generated_files, ret, error, passes, history>>

plugin == <<metadata, tags_filename, tags_folder, tags_template>>

locals == <<files, scan_i, data, d, generated_files, ret, error>>

tag_pages_filename_template(tag) == "tag." \o tag \o ".md"

\* the name of the i-th document of the source tree
SrcPath(i) == Stems[i] \o docs[i].ext

\* the File the host makes of a source document
SourceFile(i) ==
    [src_path |-> SrcPath(i), src_dir |-> docs_dir, dest_dir |-> site_dir,
     use_directory_urls |-> TRUE]

\* the file collection the host hands to on_files
HostFiles == [i \in 1..Len(docs) |-> SourceFile(i)]

\* the document that Path(path) / Path(name) opens
DocNamed(name) == docs[CHOOSE i \in 1..Len(docs) : SrcPath(i) = name]

------------------------------------------------------------------------------
(* TagsPlugin.__get_aggregated_data                                          *)

\* the year a document without one is sorted by
DefaultYear == 5000

\* the key of the first sort: e.get("year", 5000) if e else 0
YearKey(e) == IF Falsy(e) THEN 0 ELSE DictGet(e, "year", DefaultYear)

\* sorted_meta, as positions in self.metadata
SortedMeta(meta) == SortedPositions([i \in 1..Len(meta) |-> YearKey(meta[i])], Len(meta))

\* e["title"] = "Untitled" on every entry the loop does not skip
WithTitle(e) ==
    IF Falsy(e) \/ "title" \in DOMAIN e THEN e ELSE ("title" :> "Untitled") @@ e

\* the tags the inner loop goes through for the entry e
TagsLooped(e) ==
    LET tags == DictGet(e, "tags", YamlList(<<>>))
    IN  IF Falsy(e) \/ tags.null THEN <<>> ELSE tags.items

\* the loop over the tags of one entry: tag_dict[tag].append(e)
RECURSIVE AppendTags(_, _, _, _)
AppendTags(tag_dict, tags, k, e) ==
    IF k > Len(tags) THEN tag_dict
    ELSE AppendTags(DictAppend(tag_dict, tags[k], e), tags, k + 1, e)

\* the loop over sorted_meta
RECURSIVE GroupByTag(_, _, _, _)
GroupByTag(tag_dict, meta, sorted_meta, k) ==
    IF k > Len(sorted_meta) THEN tag_dict
    ELSE GroupByTag(AppendTags(tag_dict, TagsLooped(meta[sorted_meta[k]]), 1, sorted_meta[k]),
                    meta, sorted_meta, k + 1)

\* the key of the second sort: t[0].lower()
TagKey(tag) == Ord(Lower(tag))

\* sorted(tag_dict.items(), key=lambda t: t[0].lower())
SortedItems(tag_dict) ==
    LET order == SortedPositions([k \in 1..Len(tag_dict) |-> TagKey(tag_dict[k][1])],
                                 Len(tag_dict))
    IN  [k \in 1..Len(tag_dict) |-> tag_dict[order[k]]]

get_aggregated_data(meta) == SortedItems(GroupByTag(<<>>, meta, SortedMeta(meta), 1))

------------------------------------------------------------------------------
(* TagsPlugin.generate_files                                                 *)

builtin_templates == "tags/templates"

\* templ.render(tag=tag, pages=pages): the text is the template applied to
\* its context; pages are the entries of self.metadata the group refers to
RenderTagPage(meta, tag, pages) ==
    [loader |-> builtin_templates, template |-> "tag-pages.md.template",
     tag |-> tag, pages |-> [k \in 1..Len(pages) |-> meta[pages[k]]], data |-> <<>>]

\* templ.render(data=d.items())
RenderIndex(template, items) ==
    [loader   |-> IF template = NoneStr THEN builtin_templates ELSE PathParent(template),
     template |-> IF template = NoneStr THEN "tags.md.template" ELSE PathName(template),
     tag |-> "", pages |-> <<>>, data |-> items]

\* __write_file(data, file_path)
write_file(disk, text, file_path) == (file_path :> text) @@ disk

\* the loop "1 - Create pages per tag files", from the k-th pair of data on:
\* the disk, the dict d and all_generated_files after it
RECURSIVE TagPagesLoop(_, _, _, _)
TagPagesLoop(st, meta, pairs, k) ==
    IF k > Len(pairs) THEN st
    ELSE LET tag      == pairs[k][1]
             filename == tag_pages_filename_template(tag)
         IN  TagPagesLoop(
                 [disk |-> write_file(st.disk, RenderTagPage(meta, tag, pairs[k][2]),
                                      Join(tags_folder, filename)),
                  d    |-> DictSet(st.d, tag, filename),
                  all_generated_files |-> Append(st.all_generated_files, filename)],
                 meta, pairs, k + 1)

\* generate_files() on the entries meta: the disk, data, d and the list returned
generate_files(disk, meta) ==
    LET pairs == get_aggregated_data(meta)
        st    == TagPagesLoop([disk |-> disk, d |-> <<>>, all_generated_files |-> <<>>],
                              meta, pairs, 1)
    IN  [disk |-> write_file(st.disk, RenderIndex(tags_template, st.d),
                             Join(tags_folder, tags_filename)),
         data |-> pairs,
         d    |-> st.d,
         all_generated_files |-> Append(st.all_generated_files, tags_filename)]

------------------------------------------------------------------------------
(* The hook sequence.                                                        *)

\* what on_files holds before it returns
Pending == [pending |-> TRUE]

\* TagsPlugin.__init__
InitPlugin ==
    /\ metadata = <<>>
    /\ tags_filename = "tags.md"
    /\ tags_folder = "aux"
    /\ tags_template = NoneStr

InitLocals ==
    /\ files = <<>>
    /\ scan_i = 0
    /\ data = <<>>
    /\ d = <<>>
    /\ generated_files = <<>>
    /\ ret = Pending
    /\ error = ""

Init ==
    /\ docs \in UNION {[1..n -> Documents] : n \in 1..MaxFiles}
    /\ config \in Configs
    /\ dirs = {docs_dir}
    /\ out = <<>>
    /\ InitPlugin
    /\ InitLocals
    /\ pc = "constructed"
    /\ passes = 0
    /\ history = <<>>

\* a pass has ended, by a return or by an exception, and the host may build again
PassOver == pc \in {"returned", "raised"} /\ passes < MaxPasses

\* a new build process constructs the plugin anew: TagsPlugin.__init__
Construct ==
    /\ PassOver
    /\ metadata' = <<>>
    /\ tags_filename' = "tags.md"
    /\ tags_folder' = "aux"
    /\ tags_template' = NoneStr
    /\ pc' = "constructed"
    /\ UNCHANGED <<docs, config, dirs, out, locals, passes, history>>

\* TagsPlugin.on_config: at the start of a build, and of every rebuild of a
\* serving host on the same plugin instance
on_config ==
    /\ pc = "constructed" \/ PassOver
    /\ tags_filename' = Or(config.tags_filename, tags_filename)
    /\ LET folder == Or(config.tags_folder, tags_folder)
           abs    == IF IsAbsolute(folder) THEN folder ELSE Join(Join(docs_dir, ".."), folder)
       IN  /\ tags_folder' = abs
           /\ dirs' = dirs \cup {abs}
    /\ tags_template' = Or(config.tags_template, tags_template)
    /\ pc' = "configured"
    /\ UNCHANGED <<docs, config, out, metadata, locals, passes, history>>

\* the host calls on_files(files, config)
on_files_call ==
    /\ pc = "configured"
    /\ files' = HostFiles
    /\ scan_i' = 1
    /\ data' = <<>>
    /\ d' = <<>>
    /\ generated_files' = <<>>
    /\ ret' = Pending
    /\ error' = ""
    /\ passes' = passes + 1
    /\ pc' = "scan"
    /\ UNCHANGED <<docs, config, dirs, out, plugin, history>>

\* a scan loop that hands over one file early
ScanCompleteOffByOne == scan_i >= Len(files)

\* the scan loop of on_files has gone through all of files
ScanComplete == scan_i > Len(files)

\* one turn of the scan loop: a file that is no .md file is passed over
scan_skip ==
    /\ pc = "scan" /\ scan_i <= Len(files)
    /\ ~EndsWith(files[scan_i].src_path, ".md")
    /\ scan_i' = scan_i + 1
    /\ UNCHANGED <<docs, config, dirs, out, plugin, pc, files, data, d,
                   generated_files, ret, error, passes, history>>

\* one turn of the scan loop: self.metadata.append(get_metadata(...))
scan_append ==
    /\ pc = "scan" /\ scan_i <= Len(files)
    /\ EndsWith(files[scan_i].src_path, ".md")
    /\ LET name == files[scan_i].src_path
           r    == get_metadata(name, DocNamed(name))
       IN  /\ r.raised = ""
           /\ metadata' = Append(metadata, r.value)
    /\ scan_i' = scan_i + 1
    /\ UNCHANGED <<docs, config, dirs, out, tags_filename, tags_folder, tags_template,
                   pc, files, data, d, generated_files, ret, error, passes, history>>

\* one turn of the scan loop: get_metadata raises, and on_files with it
scan_raise ==
    /\ pc = "scan" /\ scan_i <= Len(files)
    /\ EndsWith(files[scan_i].src_path, ".md")
    /\ LET name == files[scan_i].src_path
           r    == get_metadata(name, DocNamed(name))
       IN  /\ r.raised # ""
           /\ error' = r.raised
    /\ pc' = "raised"
    /\ UNCHANGED <<docs, config, dirs, out, plugin, files, scan_i, data, d,
                   generated_files, ret, passes, history>>

\* generated_files = self.generate_files(), with the titles that
\* __get_aggregated_data fills in on the entries of self.metadata
generate ==
    /\ pc = "scan" /\ ScanComplete
    /\ LET meta == [i \in 1..Len(metadata) |-> WithTitle(metadata[i])]
           g    == generate_files(out, meta)
       IN  /\ metadata' = meta
           /\ out' = g.disk
           /\ data' = g.data
           /\ d' = g.d
           /\ generated_files' = g.all_generated_files
    /\ pc' = "register"
    /\ UNCHANGED <<docs, config, dirs, tags_filename, tags_folder, tags_template,
                   files, scan_i, ret, error, passes, history>>

\* File(path=str(generated_file), src_dir=str(self.tags_folder), ...)
NewFile(generated_file) ==
    [src_path |-> generated_file, src_dir |-> tags_folder, dest_dir |-> site_dir,
     use_directory_urls |-> FALSE]

\* the loop files.append(newfile), then the end of on_files, which has no
\* return statement
register ==
    /\ pc = "register"
    /\ files' = files \o [k \in 1..Len(generated_files) |-> NewFile(generated_files[k])]
    /\ ret' = None
    /\ history' = Append(history, [out |-> out, generated_files |-> generated_files])
    /\ pc' = "returned"
    /\ UNCHANGED <<docs, config, dirs, out, plugin, scan_i, data, d,
                   generated_files, error, passes>>

Next ==
    \/ Construct
    \/ on_config
    \/ on_files_call
    \/ scan_skip
    \/ scan_append
    \/ scan_raise
    \/ generate
    \/ register

Spec == Init /\ [][Next]_vars

------------------------------------------------------------------------------
(* What the properties speak of.                                             *)

\* the aggregated data of the current pass is there
Aggregated == pc \in {"register", "returned"}

\* the i-th document of the source tree is a readable .md document
IsMarkdown(i) == docs[i].ext = ".md" /\ docs[i].readable

\* get_metadata has been called on the i-th document in the current pass
Scanned(i) ==
    \/ pc \in {"scan", "register", "returned"} /\ i < scan_i
    \/ pc = "raised" /\ i = scan_i

\* get_metadata raised on the i-th document in the current pass
RaisedAt(i) == pc = "raised" /\ i = scan_i

\* the entries of self.metadata that came from the document called name
EntriesOf(name) ==
    {k \in 1..Len(metadata) : metadata[k] # None /\ metadata[k].filename = name}

\* the positions of the marker lines of a document
Markers(lines) == {k \in 1..Len(lines) : Strip(lines[k]) = "---"}

Min(S) == CHOOSE m \in S : \A n \in S : m <= n

\* the lines strictly between the first and the second marker line
Block(lines) ==
    LET first  == Min(Markers(lines))
        second == Min(Markers(lines) \ {first})
    IN  SubSeq(lines, first + 1, second - 1)

\* the group of a tag in the aggregated data: positions in self.metadata
Group(tag) ==
    IF HasKey(data, tag)
    THEN data[CHOOSE k \in 1..Len(data) : data[k][1] = tag][2]
    ELSE <<>>

\* how many times the document called name is in the group of tag
TimesIn(tag, name) ==
    Cardinality({k \in 1..Len(Group(tag)) : metadata[Group(tag)[k]].filename = name})

\* the tags the document behind the entry e lists
ListedTags(e) == {TagsLooped(e)[k] : k \in 1..Len(TagsLooped(e))}

HasYear(e) == "year" \in DOMAIN e

\* the tags of an aggregated result, in its order
TagSequence(pairs) == ItemKeys(pairs)

\* the entries meta with the i-th and the j-th exchanged
Swap(meta, i, j) ==
    [k \in 1..Len(meta) |-> IF k = i THEN meta[j] ELSE IF k = j THEN meta[i] ELSE meta[k]]

\* the path of a generated file
OutPath(filename) == Join(tags_folder, filename)

\* the names of the per-tag pages of the current pass
TagPageNames == {tag_pages_filename_template(data[k][1]) : k \in 1..Len(data)}

------------------------------------------------------------------------------
(* The properties.                                                           *)

\* C1: a pass run again on unchanged source documents, on a fresh plugin
\* instance or on the same one, generates the same files as the pass before
\* it: the same filenames and the same texts, so the same document sequence
\* in every tag's group.
C1_Idempotent ==
    (pc = "returned" /\ Len(history) >= 2)
        => /\ history[Len(history)].generated_files
                = history[Len(history) - 1].generated_files
           /\ history[Len(history)].out = history[Len(history) - 1].out

\* C2: after a pass, every tag of the aggregated data has its own per-tag
\* file on disk, holding that tag's page, distinct tags have distinct files,
\* and the global index refers to exactly the per-tag filenames of the pass.
C2_OneFilePerTag ==
    pc = "returned"
        => /\ \A k \in 1..Len(data) :
                LET path == OutPath(tag_pages_filename_template(data[k][1]))
                IN  /\ path \in DOMAIN out
                    /\ out[path].template = "tag-pages.md.template"
                    /\ out[path].tag = data[k][1]
           /\ \A j, k \in 1..Len(data) :
                j # k => tag_pages_filename_template(data[j][1])
                            # tag_pages_filename_template(data[k][1])
           /\ OutPath(tags_filename) \in DOMAIN out
           /\ LET index == out[OutPath(tags_filename)]
              IN  /\ index.tag = ""
                  /\ {index.data[k][2] : k \in 1..Len(index.data)} = TagPageNames
                  /\ {index.data[k][1] : k \in 1..Len(index.data)}
                        = {data[k][1] : k \in 1..Len(data)}

\* C3: a document with metadata is exactly once in the group of every tag it
\* lists, also when it lists the tag more than once, and in no other group.
C3_OncePerTag ==
    Aggregated
        => \A k \in 1..Len(metadata) : \A tag \in TagNames :
              metadata[k] # None
                 => TimesIn(tag, metadata[k].filename)
                       = IF tag \in ListedTags(metadata[k]) THEN 1 ELSE 0

\* C4 as claimed: in every group the years ascend, a document without a year
\* comes after every document with one, whatever the years are, and documents
\* of equal year, or both without one, keep their scan order.
C4_MissingYearLast ==
    Aggregated
        => \A t \in 1..Len(data) : \A a, b \in 1..Len(data[t][2]) :
              LET p == metadata[data[t][2][a]]
                  q == metadata[data[t][2][b]]
              IN  a < b
                    => /\ (HasYear(p) /\ HasYear(q)) => p.year <= q.year
                       /\ ~(~HasYear(p) /\ HasYear(q))
                       /\ YearKey(p) = YearKey(q) /\ HasYear(p) = HasYear(q)
                            => data[t][2][a] <= data[t][2][b]

\* C4 as amended: in every group the documents ascend by year, a document
\* without a year counting as of the year 5000 (so it comes after the
\* documents of an earlier year and before those of a later one), and
\* documents of equal year so counted keep their order in self.metadata,
\* the order they were scanned in.
C4_YearOrder ==
    Aggregated
        => \A t \in 1..Len(data) : \A a, b \in 1..Len(data[t][2]) :
              LET p  == metadata[data[t][2][a]]
                  q  == metadata[data[t][2][b]]
                  yp == IF HasYear(p) THEN p.year ELSE DefaultYear
                  yq == IF HasYear(q) THEN q.year ELSE DefaultYear
              IN  a < b => \/ yp < yq
                           \/ yp = yq /\ data[t][2][a] <= data[t][2][b]

\* C4's case: a group where a document without a year, scanned first, was
\* moved behind a document with one, and two documents tie
C4_Witness ==
    /\ Aggregated
    /\ \E t \in 1..Len(data) : \E a, b \in 1..Len(data[t][2]) :
          /\ a < b
          /\ HasYear(metadata[data[t][2][a]])
          /\ ~HasYear(metadata[data[t][2][b]])
          /\ data[t][2][a] > data[t][2][b]
    /\ \E t \in 1..Len(data) : \E a, b \in 1..Len(data[t][2]) :
          /\ a < b
          /\ data[t][2][a] < data[t][2][b]
          /\ YearKey(metadata[data[t][2][a]]) = YearKey(metadata[data[t][2][b]])

\* C5: the tags of the aggregated data are in case-insensitive order, and
\* they come in the same sequence whatever the order the documents were
\* scanned in (every reordering is a chain of exchanges of two documents).
C5_TagOrderFixed ==
    Aggregated
        => /\ \A j, k \in 1..Len(data) :
                j < k => TagKey(data[j][1]) <= TagKey(data[k][1])
           /\ \A i, j \in 1..Len(metadata) :
                TagSequence(get_aggregated_data(Swap(metadata, i, j)))
                    = TagSequence(data)

\* C6: a document with fewer than two marker lines, or with nothing between
\* its first two, makes get_metadata return None, without raising, and is in
\* no tag group: no entry of self.metadata is a mapping of that document.
C6_NoBlockIsAbsent ==
    \A i \in 1..Len(docs) :
        (/\ IsMarkdown(i)
         /\ Scanned(i)
         /\ \/ Cardinality(Markers(docs[i].lines)) < 2
            \/ Block(docs[i].lines) = <<>>)
            => /\ ~RaisedAt(i)
               /\ EntriesOf(SrcPath(i)) = {}
               /\ Aggregated => \A tag \in TagNames : TimesIn(tag, SrcPath(i)) = 0

\* C7: on_files returns the file collection it was given with one more entry
\* for every per-tag page and one for the global index.
C7_ReturnsFiles ==
    pc = "returned"
        => ret = [collection |->
                    HostFiles
                    \o [k \in 1..Len(data) |->
                          NewFile(tag_pages_filename_template(data[k][1]))]
                    \o <<NewFile(tags_filename)>>]

\* C8: extract_yaml collects exactly the lines strictly between the first and
\* the second marker line; a document with fewer than two marker lines has
\* nothing collected and get_metadata returns None for it.
C8_BlockBetweenMarkers ==
    \A i \in 1..Len(docs) :
        (IsMarkdown(i) /\ Scanned(i))
            => IF Cardinality(Markers(docs[i].lines)) >= 2
               THEN extract_yaml(docs[i].lines) = Block(docs[i].lines)
               ELSE /\ extract_yaml(docs[i].lines) = <<>>
                    /\ ~RaisedAt(i)
                    /\ EntriesOf(SrcPath(i)) = {}

\* C9: when the collected lines are not empty and parse to nothing,
\* get_metadata returns None and raises nothing, and the pass goes on.
C9_EmptyParseIsAbsent ==
    \A i \in 1..Len(docs) :
        (/\ IsMarkdown(i)
         /\ Scanned(i)
         /\ extract_yaml(docs[i].lines) # <<>>
         /\ yaml_load(extract_yaml(docs[i].lines)).is = "none")
            => /\ ~RaisedAt(i)
               /\ EntriesOf(SrcPath(i)) = {}

\* C10: on_files extracts every .md document before anything is generated:
\* while it scans, and when it has ended by an exception, the pass has
\* written nothing (the disk is as the pass before left it) and has added no
\* file to the host's collection; so when the extraction of some document of
\* the source tree fails, no per-tag page and no global index is ever written.
C10_AllOrNothing ==
    /\ pc \in {"scan", "raised"}
         => /\ out = (IF history = <<>> THEN <<>> ELSE history[Len(history)].out)
            /\ generated_files = <<>>
            /\ files = HostFiles
    /\ (\E i \in 1..Len(docs) :
            /\ EndsWith(SrcPath(i), ".md")
            /\ get_metadata(SrcPath(i), docs[i]).raised # "")
         => /\ out = <<>>
            /\ generated_files = <<>>
            /\ files \in {<<>>, HostFiles}
            /\ ~Aggregated

\* C10's case: a document with tags was extracted, the next one failed, and
\* on_files ended by the exception
C10_Witness ==
    /\ pc = "raised"
    /\ scan_i = 2
    /\ Len(metadata) >= 1
    /\ metadata[Len(metadata)] # None
    /\ ListedTags(metadata[Len(metadata)]) # {}
    /\ out = <<>>
    /\ files = HostFiles

====
